---------------------------- MODULE Spec2Model ----------------------------
(***************************************************************************)
(* Model of kepler/src/lib.rs: the three axis rotations rot_x, rot_y and   *)
(* rot_z, the Orbit struct with its constructor, the Kepler equation       *)
(* solver Orbit::E, Orbit::pos and the apsis queries.                      *)
(*                                                                         *)
(* Numbers.  The program computes in f64.  The model computes in a small   *)
(* binary floating-point format: an integer n stands for the real n / ONE, *)
(* a value keeps SIGNIFICAND significant bits (f64 keeps 53), and below    *)
(* 2^SIGNIFICAND / ONE the spacing stays 1 / ONE (gradual underflow).      *)
(* Every arithmetic operation returns the representable value nearest to   *)
(* its exact result, ties to even, as an f64 operation does; sin and atan  *)
(* come from tables of correctly rounded values.  Signed zeros, infinities *)
(* and NaN do not exist in the model.                                      *)
(***************************************************************************)
EXTENDS Integers, Sequences, FiniteSets, TLC

VARIABLES
    orbit,      \* the Orbit value: [e, a, b, i, o, w, t0]
    pc,         \* position of the caller / of the running method
    M,          \* argument of pos and E
    E,          \* E's local `E`: the current estimate
    E_old,      \* the estimate the last E_next was computed from
    E_next,     \* E's local `E_next` of the last iteration run
    iters,      \* loop bodies of E run so far (evaluations of E_next)
    how,        \* which return statement of E ran: "converged" | "exhausted"
    retE,       \* the value E returned
    pos,        \* pos's local `pos`
    ret,        \* the value apoapsis / periapsis returned
    p,          \* rotation calls: the point the caller started from
    hist,       \* rotation calls: the calls made so far, <<axis, angle>> each
    q           \* rotation calls: the point returned by the last call

vars == <<orbit, pc, M, E, E_old, E_next, iters, how, retE, pos, ret, p, hist, q>>

---------------------------------------------------------------------------
(* The floating-point format standing for f64.                             *)

ONE == 10 ^ 3                 \* the integer that stands for 1.0

SIGNIFICAND == 12             \* significant bits of a value

Abs(x) == IF x < 0 THEN -x ELSE x

Sign(x) == IF x < 0 THEN -1 ELSE IF x > 0 THEN 1 ELSE 0

RECURSIVE Spacing(_)
\* the distance between neighbouring representable values at magnitude n
Spacing(n) == IF n < 2 ^ SIGNIFICAND THEN 1 ELSE 2 * Spacing(n \div 2)

\* the representable value nearest to the rational n / d (d > 0), ties to even
Round(n, d) ==
    LET a    == Abs(n)
        g    == Spacing(a \div d)
        den  == d * g
        quo  == a \div den
        rem  == a % den
        up   == 2 * rem > den \/ (2 * rem = den /\ quo % 2 = 1)
        mag  == (IF up THEN quo + 1 ELSE quo) * g
    IN IF n < 0 THEN -mag ELSE mag

\* f64 `+`
Add(x, y) == Round(x + y, 1)

\* f64 `-`
Sub(x, y) == Round(x - y, 1)

\* f64 `*`
Mul(x, y) == Round(x * y, ONE)

\* f64 `/`
Div(x, y) == IF y > 0 THEN Round(x * ONE, y) ELSE Round(-(x * ONE), -y)

\* f64 `%`: the remainder of the truncated division; it has the sign of x
\* and is exact
Fmod(x, y) == IF x >= 0 THEN x % y ELSE -((-x) % y)

RECURSIVE ISqrtIn(_, _, _)
ISqrtIn(n, lo, hi) ==
    IF lo >= hi THEN lo
    ELSE LET mid == (lo + hi + 1) \div 2
         IN IF mid * mid <= n THEN ISqrtIn(n, mid, hi) ELSE ISqrtIn(n, lo, mid - 1)

\* floor of the square root of the integer n, 0 <= n < 2^30
ISqrt(n) == ISqrtIn(n, 0, 32767)

\* the square root of the integer n rounded to the nearest integer
RSqrt(n) == (ISqrt(4 * n) + 1) \div 2

\* f64::sqrt
Sqrt(x) == Round(RSqrt(x * ONE), 1)

\* f64::hypot
Hypot(x, y) == Round(RSqrt(x * x + y * y), 1)

PI == 3142                    \* std::f64::consts::PI: pi rounded to the nearest representable value

HALF_PI == PI \div 2

TWO_PI == 2 * PI              \* the program's 2.0*PI

\* sin(k / ONE) * ONE rounded, k = 0 .. HALF_PI, at index k + 1
SinTable ==
   <<
      0, 1, 2, 3, 4, 5, 6, 7, 8, 9, 10, 11, 12, 13, 14, 15,
      16, 17, 18, 19, 20, 21, 22, 23, 24, 25, 26, 27, 28, 29, 30, 31,
      32, 33, 34, 35, 36, 37, 38, 39, 40, 41, 42, 43, 44, 45, 46, 47,
      48, 49, 50, 51, 52, 53, 54, 55, 56, 57, 58, 59, 60, 61, 62, 63,
      64, 65, 66, 67, 68, 69, 70, 71, 72, 73, 74, 75, 76, 77, 78, 79,
      80, 81, 82, 83, 84, 85, 86, 87, 88, 89, 90, 91, 92, 93, 94, 95,
      96, 97, 98, 99, 100, 101, 102, 103, 104, 105, 106, 107, 108, 109, 110, 111,
      112, 113, 114, 115, 116, 117, 118, 119, 120, 121, 122, 123, 124, 125, 126, 127,
      128, 129, 130, 131, 132, 133, 134, 135, 136, 137, 138, 139, 140, 141, 142, 143,
      144, 144, 145, 146, 147, 148, 149, 150, 151, 152, 153, 154, 155, 156, 157, 158,
      159, 160, 161, 162, 163, 164, 165, 166, 167, 168, 169, 170, 171, 172, 173, 174,
      175, 176, 177, 178, 179, 180, 181, 182, 183, 184, 185, 186, 187, 188, 189, 190,
      191, 192, 193, 194, 195, 196, 197, 198, 199, 200, 201, 202, 203, 204, 205, 206,
      207, 207, 208, 209, 210, 211, 212, 213, 214, 215, 216, 217, 218, 219, 220, 221,
      222, 223, 224, 225, 226, 227, 228, 229, 230, 231, 232, 233, 234, 235, 236, 237,
      238, 239, 240, 241, 242, 243, 244, 244, 245, 246, 247, 248, 249, 250, 251, 252,
      253, 254, 255, 256, 257, 258, 259, 260, 261, 262, 263, 264, 265, 266, 267, 268,
      269, 270, 271, 272, 273, 273, 274, 275, 276, 277, 278, 279, 280, 281, 282, 283,
      284, 285, 286, 287, 288, 289, 290, 291, 292, 293, 294, 295, 296, 296, 297, 298,
      299, 300, 301, 302, 303, 304, 305, 306, 307, 308, 309, 310, 311, 312, 313, 314,
      315, 316, 316, 317, 318, 319, 320, 321, 322, 323, 324, 325, 326, 327, 328, 329,
      330, 331, 332, 333, 333, 334, 335, 336, 337, 338, 339, 340, 341, 342, 343, 344,
      345, 346, 347, 348, 349, 349, 350, 351, 352, 353, 354, 355, 356, 357, 358, 359,
      360, 361, 362, 363, 363, 364, 365, 366, 367, 368, 369, 370, 371, 372, 373, 374,
      375, 376, 376, 377, 378, 379, 380, 381, 382, 383, 384, 385, 386, 387, 388, 388,
      389, 390, 391, 392, 393, 394, 395, 396, 397, 398, 399, 400, 400, 401, 402, 403,
      404, 405, 406, 407, 408, 409, 410, 410, 411, 412, 413, 414, 415, 416, 417, 418,
      419, 420, 421, 421, 422, 423, 424, 425, 426, 427, 428, 429, 430, 430, 431, 432,
      433, 434, 435, 436, 437, 438, 439, 439, 440, 441, 442, 443, 444, 445, 446, 447,
      448, 448, 449, 450, 451, 452, 453, 454, 455, 456, 456, 457, 458, 459, 460, 461,
      462, 463, 464, 464, 465, 466, 467, 468, 469, 470, 471, 472, 472, 473, 474, 475,
      476, 477, 478, 479, 479, 480, 481, 482, 483, 484, 485, 486, 486, 487, 488, 489,
      490, 491, 492, 493, 493, 494, 495, 496, 497, 498, 499, 499, 500, 501, 502, 503,
      504, 505, 506, 506, 507, 508, 509, 510, 511, 512, 512, 513, 514, 515, 516, 517,
      518, 518, 519, 520, 521, 522, 523, 524, 524, 525, 526, 527, 528, 529, 529, 530,
      531, 532, 533, 534, 535, 535, 536, 537, 538, 539, 540, 540, 541, 542, 543, 544,
      545, 546, 546, 547, 548, 549, 550, 551, 551, 552, 553, 554, 555, 556, 556, 557,
      558, 559, 560, 561, 561, 562, 563, 564, 565, 565, 566, 567, 568, 569, 570, 570,
      571, 572, 573, 574, 575, 575, 576, 577, 578, 579, 579, 580, 581, 582, 583, 583,
      584, 585, 586, 587, 588, 588, 589, 590, 591, 592, 592, 593, 594, 595, 596, 596,
      597, 598, 599, 600, 600, 601, 602, 603, 604, 604, 605, 606, 607, 608, 608, 609,
      610, 611, 612, 612, 613, 614, 615, 615, 616, 617, 618, 619, 619, 620, 621, 622,
      623, 623, 624, 625, 626, 626, 627, 628, 629, 630, 630, 631, 632, 633, 633, 634,
      635, 636, 637, 637, 638, 639, 640, 640, 641, 642, 643, 643, 644, 645, 646, 647,
      647, 648, 649, 650, 650, 651, 652, 653, 653, 654, 655, 656, 656, 657, 658, 659,
      659, 660, 661, 662, 662, 663, 664, 665, 665, 666, 667, 668, 668, 669, 670, 671,
      671, 672, 673, 674, 674, 675, 676, 677, 677, 678, 679, 679, 680, 681, 682, 682,
      683, 684, 685, 685, 686, 687, 687, 688, 689, 690, 690, 691, 692, 693, 693, 694,
      695, 695, 696, 697, 698, 698, 699, 700, 700, 701, 702, 703, 703, 704, 705, 705,
      706, 707, 708, 708, 709, 710, 710, 711, 712, 712, 713, 714, 715, 715, 716, 717,
      717, 718, 719, 719, 720, 721, 722, 722, 723, 724, 724, 725, 726, 726, 727, 728,
      728, 729, 730, 730, 731, 732, 733, 733, 734, 735, 735, 736, 737, 737, 738, 739,
      739, 740, 741, 741, 742, 743, 743, 744, 745, 745, 746, 747, 747, 748, 749, 749,
      750, 751, 751, 752, 753, 753, 754, 755, 755, 756, 757, 757, 758, 758, 759, 760,
      760, 761, 762, 762, 763, 764, 764, 765, 766, 766, 767, 768, 768, 769, 769, 770,
      771, 771, 772, 773, 773, 774, 775, 775, 776, 776, 777, 778, 778, 779, 780, 780,
      781, 781, 782, 783, 783, 784, 785, 785, 786, 786, 787, 788, 788, 789, 790, 790,
      791, 791, 792, 793, 793, 794, 794, 795, 796, 796, 797, 797, 798, 799, 799, 800,
      800, 801, 802, 802, 803, 803, 804, 805, 805, 806, 806, 807, 808, 808, 809, 809,
      810, 810, 811, 812, 812, 813, 813, 814, 815, 815, 816, 816, 817, 817, 818, 819,
      819, 820, 820, 821, 821, 822, 823, 823, 824, 824, 825, 825, 826, 827, 827, 828,
      828, 829, 829, 830, 830, 831, 832, 832, 833, 833, 834, 834, 835, 835, 836, 837,
      837, 838, 838, 839, 839, 840, 840, 841, 841, 842, 843, 843, 844, 844, 845, 845,
      846, 846, 847, 847, 848, 848, 849, 849, 850, 851, 851, 852, 852, 853, 853, 854,
      854, 855, 855, 856, 856, 857, 857, 858, 858, 859, 859, 860, 860, 861, 861, 862,
      862, 863, 863, 864, 864, 865, 865, 866, 866, 867, 867, 868, 868, 869, 869, 870,
      870, 871, 871, 872, 872, 873, 873, 874, 874, 875, 875, 876, 876, 877, 877, 878,
      878, 879, 879, 880, 880, 881, 881, 881, 882, 882, 883, 883, 884, 884, 885, 885,
      886, 886, 887, 887, 888, 888, 888, 889, 889, 890, 890, 891, 891, 892, 892, 893,
      893, 893, 894, 894, 895, 895, 896, 896, 897, 897, 897, 898, 898, 899, 899, 900,
      900, 901, 901, 901, 902, 902, 903, 903, 904, 904, 904, 905, 905, 906, 906, 907,
      907, 907, 908, 908, 909, 909, 909, 910, 910, 911, 911, 912, 912, 912, 913, 913,
      914, 914, 914, 915, 915, 916, 916, 916, 917, 917, 918, 918, 918, 919, 919, 920,
      920, 920, 921, 921, 922, 922, 922, 923, 923, 923, 924, 924, 925, 925, 925, 926,
      926, 926, 927, 927, 928, 928, 928, 929, 929, 929, 930, 930, 931, 931, 931, 932,
      932, 932, 933, 933, 933, 934, 934, 935, 935, 935, 936, 936, 936, 937, 937, 937,
      938, 938, 938, 939, 939, 939, 940, 940, 940, 941, 941, 941, 942, 942, 942, 943,
      943, 943, 944, 944, 944, 945, 945, 945, 946, 946, 946, 947, 947, 947, 948, 948,
      948, 949, 949, 949, 950, 950, 950, 951, 951, 951, 951, 952, 952, 952, 953, 953,
      953, 954, 954, 954, 955, 955, 955, 955, 956, 956, 956, 957, 957, 957, 957, 958,
      958, 958, 959, 959, 959, 959, 960, 960, 960, 961, 961, 961, 961, 962, 962, 962,
      962, 963, 963, 963, 964, 964, 964, 964, 965, 965, 965, 965, 966, 966, 966, 966,
      967, 967, 967, 967, 968, 968, 968, 968, 969, 969, 969, 969, 970, 970, 970, 970,
      971, 971, 971, 971, 972, 972, 972, 972, 973, 973, 973, 973, 973, 974, 974, 974,
      974, 975, 975, 975, 975, 976, 976, 976, 976, 976, 977, 977, 977, 977, 977, 978,
      978, 978, 978, 978, 979, 979, 979, 979, 980, 980, 980, 980, 980, 981, 981, 981,
      981, 981, 981, 982, 982, 982, 982, 982, 983, 983, 983, 983, 983, 984, 984, 984,
      984, 984, 984, 985, 985, 985, 985, 985, 985, 986, 986, 986, 986, 986, 986, 987,
      987, 987, 987, 987, 987, 988, 988, 988, 988, 988, 988, 989, 989, 989, 989, 989,
      989, 989, 990, 990, 990, 990, 990, 990, 990, 991, 991, 991, 991, 991, 991, 991,
      991, 992, 992, 992, 992, 992, 992, 992, 992, 993, 993, 993, 993, 993, 993, 993,
      993, 994, 994, 994, 994, 994, 994, 994, 994, 994, 995, 995, 995, 995, 995, 995,
      995, 995, 995, 995, 996, 996, 996, 996, 996, 996, 996, 996, 996, 996, 996, 996,
      997, 997, 997, 997, 997, 997, 997, 997, 997, 997, 997, 997, 997, 998, 998, 998,
      998, 998, 998, 998, 998, 998, 998, 998, 998, 998, 998, 998, 998, 999, 999, 999,
      999, 999, 999, 999, 999, 999, 999, 999, 999, 999, 999, 999, 999, 999, 999, 999,
      999, 999, 999, 999, 1000, 1000, 1000, 1000, 1000, 1000, 1000, 1000, 1000, 1000, 1000, 1000,
      1000, 1000, 1000, 1000, 1000, 1000, 1000, 1000, 1000, 1000, 1000, 1000, 1000, 1000, 1000, 1000,
      1000, 1000, 1000, 1000
   >>

\* atan(k / ONE) * ONE rounded, k = 0 .. ONE, at index k + 1
AtanTable ==
   <<
      0, 1, 2, 3, 4, 5, 6, 7, 8, 9, 10, 11, 12, 13, 14, 15,
      16, 17, 18, 19, 20, 21, 22, 23, 24, 25, 26, 27, 28, 29, 30, 31,
      32, 33, 34, 35, 36, 37, 38, 39, 40, 41, 42, 43, 44, 45, 46, 47,
      48, 49, 50, 51, 52, 53, 54, 55, 56, 57, 58, 59, 60, 61, 62, 63,
      64, 65, 66, 67, 68, 69, 70, 71, 72, 73, 74, 75, 76, 77, 78, 79,
      80, 81, 82, 83, 84, 85, 86, 87, 88, 89, 90, 91, 92, 93, 94, 95,
      96, 97, 98, 99, 100, 101, 102, 103, 104, 105, 106, 107, 108, 109, 110, 111,
      112, 113, 114, 114, 115, 116, 117, 118, 119, 120, 121, 122, 123, 124, 125, 126,
      127, 128, 129, 130, 131, 132, 133, 134, 135, 136, 137, 138, 139, 140, 141, 142,
      143, 144, 145, 146, 147, 148, 149, 150, 151, 152, 153, 154, 155, 156, 157, 158,
      159, 160, 161, 162, 163, 164, 164, 165, 166, 167, 168, 169, 170, 171, 172, 173,
      174, 175, 176, 177, 178, 179, 180, 181, 182, 183, 184, 185, 186, 187, 188, 189,
      190, 191, 192, 193, 194, 195, 195, 196, 197, 198, 199, 200, 201, 202, 203, 204,
      205, 206, 207, 208, 209, 210, 211, 212, 213, 214, 215, 216, 217, 218, 218, 219,
      220, 221, 222, 223, 224, 225, 226, 227, 228, 229, 230, 231, 232, 233, 234, 235,
      236, 236, 237, 238, 239, 240, 241, 242, 243, 244, 245, 246, 247, 248, 249, 250,
      251, 252, 252, 253, 254, 255, 256, 257, 258, 259, 260, 261, 262, 263, 264, 265,
      266, 267, 267, 268, 269, 270, 271, 272, 273, 274, 275, 276, 277, 278, 279, 279,
      280, 281, 282, 283, 284, 285, 286, 287, 288, 289, 290, 291, 291, 292, 293, 294,
      295, 296, 297, 298, 299, 300, 301, 302, 302, 303, 304, 305, 306, 307, 308, 309,
      310, 311, 312, 312, 313, 314, 315, 316, 317, 318, 319, 320, 321, 321, 322, 323,
      324, 325, 326, 327, 328, 329, 330, 330, 331, 332, 333, 334, 335, 336, 337, 338,
      338, 339, 340, 341, 342, 343, 344, 345, 346, 346, 347, 348, 349, 350, 351, 352,
      353, 354, 354, 355, 356, 357, 358, 359, 360, 361, 361, 362, 363, 364, 365, 366,
      367, 368, 368, 369, 370, 371, 372, 373, 374, 374, 375, 376, 377, 378, 379, 380,
      381, 381, 382, 383, 384, 385, 386, 387, 387, 388, 389, 390, 391, 392, 393, 393,
      394, 395, 396, 397, 398, 398, 399, 400, 401, 402, 403, 404, 404, 405, 406, 407,
      408, 409, 409, 410, 411, 412, 413, 414, 415, 415, 416, 417, 418, 419, 420, 420,
      421, 422, 423, 424, 425, 425, 426, 427, 428, 429, 429, 430, 431, 432, 433, 434,
      434, 435, 436, 437, 438, 439, 439, 440, 441, 442, 443, 443, 444, 445, 446, 447,
      448, 448, 449, 450, 451, 452, 452, 453, 454, 455, 456, 456, 457, 458, 459, 460,
      460, 461, 462, 463, 464, 464, 465, 466, 467, 468, 468, 469, 470, 471, 472, 472,
      473, 474, 475, 476, 476, 477, 478, 479, 480, 480, 481, 482, 483, 483, 484, 485,
      486, 487, 487, 488, 489, 490, 490, 491, 492, 493, 494, 494, 495, 496, 497, 497,
      498, 499, 500, 501, 501, 502, 503, 504, 504, 505, 506, 507, 507, 508, 509, 510,
      510, 511, 512, 513, 514, 514, 515, 516, 517, 517, 518, 519, 520, 520, 521, 522,
      523, 523, 524, 525, 526, 526, 527, 528, 529, 529, 530, 531, 532, 532, 533, 534,
      535, 535, 536, 537, 537, 538, 539, 540, 540, 541, 542, 543, 543, 544, 545, 546,
      546, 547, 548, 548, 549, 550, 551, 551, 552, 553, 554, 554, 555, 556, 556, 557,
      558, 559, 559, 560, 561, 561, 562, 563, 564, 564, 565, 566, 566, 567, 568, 569,
      569, 570, 571, 571, 572, 573, 574, 574, 575, 576, 576, 577, 578, 578, 579, 580,
      581, 581, 582, 583, 583, 584, 585, 585, 586, 587, 588, 588, 589, 590, 590, 591,
      592, 592, 593, 594, 594, 595, 596, 596, 597, 598, 599, 599, 600, 601, 601, 602,
      603, 603, 604, 605, 605, 606, 607, 607, 608, 609, 609, 610, 611, 611, 612, 613,
      613, 614, 615, 615, 616, 617, 617, 618, 619, 619, 620, 621, 621, 622, 623, 623,
      624, 625, 625, 626, 627, 627, 628, 629, 629, 630, 631, 631, 632, 633, 633, 634,
      634, 635, 636, 636, 637, 638, 638, 639, 640, 640, 641, 642, 642, 643, 644, 644,
      645, 645, 646, 647, 647, 648, 649, 649, 650, 651, 651, 652, 652, 653, 654, 654,
      655, 656, 656, 657, 657, 658, 659, 659, 660, 661, 661, 662, 662, 663, 664, 664,
      665, 666, 666, 667, 667, 668, 669, 669, 670, 670, 671, 672, 672, 673, 674, 674,
      675, 675, 676, 677, 677, 678, 678, 679, 680, 680, 681, 681, 682, 683, 683, 684,
      684, 685, 686, 686, 687, 687, 688, 689, 689, 690, 690, 691, 692, 692, 693, 693,
      694, 695, 695, 696, 696, 697, 697, 698, 699, 699, 700, 700, 701, 702, 702, 703,
      703, 704, 704, 705, 706, 706, 707, 707, 708, 709, 709, 710, 710, 711, 711, 712,
      713, 713, 714, 714, 715, 715, 716, 717, 717, 718, 718, 719, 719, 720, 721, 721,
      722, 722, 723, 723, 724, 724, 725, 726, 726, 727, 727, 728, 728, 729, 729, 730,
      731, 731, 732, 732, 733, 733, 734, 734, 735, 736, 736, 737, 737, 738, 738, 739,
      739, 740, 740, 741, 742, 742, 743, 743, 744, 744, 745, 745, 746, 746, 747, 748,
      748, 749, 749, 750, 750, 751, 751, 752, 752, 753, 753, 754, 754, 755, 756, 756,
      757, 757, 758, 758, 759, 759, 760, 760, 761, 761, 762, 762, 763, 763, 764, 764,
      765, 766, 766, 767, 767, 768, 768, 769, 769, 770, 770, 771, 771, 772, 772, 773,
      773, 774, 774, 775, 775, 776, 776, 777, 777, 778, 778, 779, 779, 780, 780, 781,
      781, 782, 782, 783, 783, 784, 784, 785, 785
   >>

\* f64::sin
Sin(x) ==
    LET y == x % TWO_PI
    IN IF y <= HALF_PI THEN SinTable[y + 1]
       ELSE IF y <= PI THEN SinTable[PI - y + 1]
       ELSE IF y <= PI + HALF_PI THEN -SinTable[y - PI + 1]
       ELSE -SinTable[TWO_PI - y + 1]

\* f64::cos
Cos(x) == Sin(x + HALF_PI)

\* f64::atan2 (y.atan2(x)), in (-PI, PI]
Atan2(y, x) ==
    IF x = 0 /\ y = 0 THEN 0
    ELSE LET ax == Abs(x)
             ay == Abs(y)
             t  == IF ay <= ax THEN AtanTable[Div(ay, ax) + 1]
                   ELSE HALF_PI - AtanTable[Div(ax, ay) + 1]
             u  == IF x < 0 THEN PI - t ELSE t
         IN IF y >= 0 THEN u ELSE -u

---------------------------------------------------------------------------
(* The rotations (lib.rs 14-52).  A point is <<x, y, z>>.                  *)

rot_x(pt, angle) ==
    LET r     == Hypot(pt[2], pt[3])
        theta == Add(Atan2(pt[3], pt[2]), angle)
    IN <<pt[1], Mul(r, Cos(theta)), Mul(r, Sin(theta))>>

\* rot_y with the sine and the cosine exchanged
rot_y_exchanged(pt, angle) ==
    LET r     == Hypot(pt[1], pt[3])
        theta == Add(Atan2(pt[1], pt[3]), angle)
    IN <<Mul(r, Cos(theta)), pt[2], Mul(r, Sin(theta))>>

rot_y(pt, angle) ==
    LET r     == Hypot(pt[1], pt[3])
        theta == Add(Atan2(pt[1], pt[3]), angle)
    IN <<Mul(r, Sin(theta)), pt[2], Mul(r, Cos(theta))>>

\* rot_z measuring the angle from the y axis (x.atan2(y), as rot_y does with z)
rot_z_from_y(pt, angle) ==
    LET r     == Hypot(pt[1], pt[2])
        theta == Add(Atan2(pt[1], pt[2]), angle)
    IN <<Mul(r, Cos(theta)), Mul(r, Sin(theta)), pt[3]>>

rot_z(pt, angle) ==
    LET r     == Hypot(pt[1], pt[2])
        theta == Add(Atan2(pt[2], pt[1]), angle)
    IN <<Mul(r, Cos(theta)), Mul(r, Sin(theta)), pt[3]>>

---------------------------------------------------------------------------
(* Orbit (lib.rs 54-139).                                                  *)

\* fn b(e, a): the semiminor axis
Orbit_b(e, a) == Mul(a, Sqrt(Sub(ONE, Mul(e, e))))

Orbit_new(e, a, i, o, w, t0) ==
    [e |-> e, a |-> a, b |-> Orbit_b(e, a), i |-> i, o |-> o, w |-> w, t0 |-> t0]

\* 9e-16 is just above the spacing of f64 values in [4, 8), 2^-50 = 8.9e-16,
\* and differences of such values are multiples of that spacing: the test
\* passes a difference of at most one spacing.  The model's spacing there is
\* 2 / ONE, so its test passes a difference of at most 2 / ONE.
PRECISION == 3

MAX_ITER == 100

DAMP == 1400                  \* the 1.4 of the update

\* let mut E = M % (2.0*PI)
E_init(m) == Fmod(m, TWO_PI)

\* let E_next = M + self.e*E.sin()
E_candidate(orb, m, est) == Add(m, Mul(orb.e, Sin(est)))

\* let difference = E_next-E
E_difference(candidate, est) == Sub(candidate, est)

\* difference.abs() < PRECISION
E_converged(difference) == Abs(difference) < PRECISION

\* let step_mult = 1.0 / (1.0-self.e*E.cos())
step_mult(orb, est) == Div(ONE, Sub(ONE, Mul(orb.e, Cos(est))))

\* E_update with a remainder that takes the divisor's sign instead of the product's
E_update_floor_mod(orb, est, difference) ==
    Add(est, Mul(step_mult(orb, est), difference) % DAMP)

\* E = E + step_mult*( difference )%(1.4): `*` and `%` associate to the left
E_update(orb, est, difference) ==
    Add(est, Fmod(Mul(step_mult(orb, est), difference), DAMP))

\* E_loop_runs for the inclusive range 0..=MAX_ITER
E_loop_runs_inclusive(n) == n <= MAX_ITER

\* for i in 0..MAX_ITER: the body runs while fewer than MAX_ITER bodies have run
E_loop_runs(n) == n < MAX_ITER

\* E_exhausted returning the last candidate instead of the estimate
E_exhausted_candidate(est, candidate) == candidate

\* the `return E` after the loop
E_exhausted(est, candidate) == est

pos_elliptic(orb, est) == <<Mul(orb.a, Sub(Cos(est), orb.e)), Mul(orb.b, Sin(est)), 0>>

\* pos_rot_1 with the longitude of the ascending node in place of the
\* argument of periapsis
pos_rot_1_node(orb, pt) == rot_z(pt, orb.o)

\* the three rotations of pos, in program order
pos_rot_1(orb, pt) == rot_z(pt, orb.w)

pos_rot_2(orb, pt) == rot_x(pt, orb.i)

pos_rot_3(orb, pt) == rot_z(pt, orb.o)

periapsis(orb) == Div(Sub(orb.a, Mul(orb.a, orb.e)), 2 * ONE)

apoapsis(orb) == Sub(orb.a, periapsis(orb))

---------------------------------------------------------------------------
(* Inputs.                                                                 *)

MMax == 32                    \* mean anomalies range over -MMax/2 .. MMax/2 radians

PMax == 1                     \* point coordinates range over -PMax .. PMax

AMax == 3                     \* rotation angles range over -AMax .. AMax radians

MaxCalls == 2                 \* rotation calls a caller chains

Eccentricities == {0, ONE \div 2, (9 * ONE) \div 10, (99 * ONE) \div 100}

Orbits ==
    { Orbit_new(e, a, i, o, w, 0) :
        e \in Eccentricities, a \in {ONE, 2 * ONE},
        i \in {0, ONE}, o \in {0, ONE \div 2}, w \in {0, 2 * ONE} }

MeanAnomalies == { (k * ONE) \div 2 : k \in -MMax .. MMax } \cup { ONE \div 100 }

Coordinates == { k * ONE : k \in -PMax .. PMax }

Points == { <<x, y, z>> : x \in Coordinates, y \in Coordinates, z \in Coordinates }

Angles == { k * ONE : k \in -AMax .. AMax }

NoPoint == <<0, 0, 0>>

---------------------------------------------------------------------------
(* The methods of Orbit, called by a caller that holds one Orbit.          *)

rotvars == <<p, hist, q>>

locals == <<M, E, E_old, E_next, iters, how, retE, pos, ret>>

NoLocals ==
    /\ M = 0 /\ E = 0 /\ E_old = 0 /\ E_next = 0 /\ iters = 0
    /\ how = "none" /\ retE = 0 /\ pos = NoPoint /\ ret = 0

Init ==
    /\ orbit \in Orbits
    /\ pc = "idle"
    /\ NoLocals
    /\ p = NoPoint /\ hist = <<>> /\ q = NoPoint

\* pos(M) is called and calls E(M), which sets its first estimate
Call_pos ==
    /\ pc = "idle"
    /\ \E m \in MeanAnomalies :
        /\ M' = m
        /\ E' = E_init(m)
    /\ pc' = "E_loop"
    /\ UNCHANGED <<orbit, E_old, E_next, iters, how, retE, pos, ret, rotvars>>

\* a loop body that ends in `return E_next`
E_Return ==
    /\ pc = "E_loop"
    /\ E_loop_runs(iters)
    /\ LET candidate == E_candidate(orbit, M, E)
       IN /\ E_converged(E_difference(candidate, E))
          /\ E_next' = candidate
          /\ retE' = candidate
    /\ E_old' = E
    /\ iters' = iters + 1
    /\ how' = "converged"
    /\ pc' = "E_done"
    /\ UNCHANGED <<orbit, M, E, pos, ret, rotvars>>

\* a loop body that updates the estimate
E_Update ==
    /\ pc = "E_loop"
    /\ E_loop_runs(iters)
    /\ LET candidate == E_candidate(orbit, M, E)
       IN /\ ~E_converged(E_difference(candidate, E))
          /\ E_next' = candidate
          /\ E' = E_update(orbit, E, E_difference(candidate, E))
    /\ E_old' = E
    /\ iters' = iters + 1
    /\ UNCHANGED <<orbit, pc, M, how, retE, pos, ret, rotvars>>

\* the loop has run MAX_ITER bodies: the return after it
E_Exhaust ==
    /\ pc = "E_loop"
    /\ ~E_loop_runs(iters)
    /\ retE' = E_exhausted(E, E_next)
    /\ how' = "exhausted"
    /\ pc' = "E_done"
    /\ UNCHANGED <<orbit, M, E, E_old, E_next, iters, pos, ret, rotvars>>

Pos_elliptic ==
    /\ pc = "E_done"
    /\ pos' = pos_elliptic(orbit, retE)
    /\ pc' = "rot_1"
    /\ UNCHANGED <<orbit, M, E, E_old, E_next, iters, how, retE, ret, rotvars>>

Pos_rot_1 ==
    /\ pc = "rot_1"
    /\ pos' = pos_rot_1(orbit, pos)
    /\ pc' = "rot_2"
    /\ UNCHANGED <<orbit, M, E, E_old, E_next, iters, how, retE, ret, rotvars>>

Pos_rot_2 ==
    /\ pc = "rot_2"
    /\ pos' = pos_rot_2(orbit, pos)
    /\ pc' = "rot_3"
    /\ UNCHANGED <<orbit, M, E, E_old, E_next, iters, how, retE, ret, rotvars>>

Pos_rot_3 ==
    /\ pc = "rot_3"
    /\ pos' = pos_rot_3(orbit, pos)
    /\ pc' = "pos_done"
    /\ UNCHANGED <<orbit, M, E, E_old, E_next, iters, how, retE, ret, rotvars>>

Call_periapsis ==
    /\ pc = "idle"
    /\ ret' = periapsis(orbit)
    /\ pc' = "periapsis_done"
    /\ UNCHANGED <<orbit, M, E, E_old, E_next, iters, how, retE, pos, rotvars>>

Call_apoapsis ==
    /\ pc = "idle"
    /\ ret' = apoapsis(orbit)
    /\ pc' = "apoapsis_done"
    /\ UNCHANGED <<orbit, M, E, E_old, E_next, iters, how, retE, pos, rotvars>>

\* the caller takes the result; the method's locals go out of scope
Return ==
    /\ pc \in {"pos_done", "periapsis_done", "apoapsis_done"}
    /\ pc' = "idle"
    /\ M' = 0 /\ E' = 0 /\ E_old' = 0 /\ E_next' = 0 /\ iters' = 0
    /\ how' = "none" /\ retE' = 0 /\ pos' = NoPoint /\ ret' = 0
    /\ UNCHANGED <<orbit, rotvars>>

Next ==
    \/ Call_pos \/ E_Return \/ E_Update \/ E_Exhaust
    \/ Pos_elliptic \/ Pos_rot_1 \/ Pos_rot_2 \/ Pos_rot_3
    \/ Call_periapsis \/ Call_apoapsis \/ Return

Spec == Init /\ [][Next]_vars

---------------------------------------------------------------------------
(* The same caller, holding the Orbit mutably.  Every field is declared    *)
(* `pub` (lib.rs 55-63), so assigning to a field is an access the type     *)
(* exposes.                                                                *)

Write_e ==
    /\ pc = "idle"
    /\ \E v \in Eccentricities : orbit' = [orbit EXCEPT !.e = v]
    /\ UNCHANGED <<pc, locals, rotvars>>

Write_a ==
    /\ pc = "idle"
    /\ \E v \in {ONE, 2 * ONE} : orbit' = [orbit EXCEPT !.a = v]
    /\ UNCHANGED <<pc, locals, rotvars>>

Write_b ==
    /\ pc = "idle"
    /\ \E v \in {ONE, 2 * ONE} : orbit' = [orbit EXCEPT !.b = v]
    /\ UNCHANGED <<pc, locals, rotvars>>

NextPub == Next \/ Write_e \/ Write_a \/ Write_b

SpecPub == Init /\ [][NextPub]_vars

---------------------------------------------------------------------------
(* The rotations called on their own: a caller starts from a point p and   *)
(* chains up to MaxCalls rotations, each applied to the last result.       *)

InitRot ==
    /\ orbit = Orbit_new(0, ONE, 0, 0, 0, 0)
    /\ pc = "idle"
    /\ NoLocals
    /\ p \in Points
    /\ hist = <<>>
    /\ q = p

Call_rot_x ==
    /\ Len(hist) < MaxCalls
    /\ \E angle \in Angles :
        /\ q' = rot_x(q, angle)
        /\ hist' = Append(hist, <<"x", angle>>)
    /\ UNCHANGED <<orbit, pc, locals, p>>

Call_rot_y ==
    /\ Len(hist) < MaxCalls
    /\ \E angle \in Angles :
        /\ q' = rot_y(q, angle)
        /\ hist' = Append(hist, <<"y", angle>>)
    /\ UNCHANGED <<orbit, pc, locals, p>>

Call_rot_z ==
    /\ Len(hist) < MaxCalls
    /\ \E angle \in Angles :
        /\ q' = rot_z(q, angle)
        /\ hist' = Append(hist, <<"z", angle>>)
    /\ UNCHANGED <<orbit, pc, locals, p>>

NextRot == Call_rot_x \/ Call_rot_y \/ Call_rot_z

SpecRot == InitRot /\ [][NextRot]_vars

---------------------------------------------------------------------------
(* Claims about the solver Orbit::E, under Spec.                           *)

\* C1: for e = 0 and every M the solver returns during its first loop body,
\* and the value it returns is M mod 2*pi.
C1_CircularReturnsAtOnce ==
    (pc = "E_done" /\ orbit.e = 0) =>
        /\ iters = 1
        /\ how = "converged"
        /\ retE = Fmod(M, TWO_PI)

\* C2: for every e in [0,1) and every M the solver ends after at most
\* MAX_ITER loop bodies (evaluations of E_next): the count of bodies never
\* passes MAX_ITER, a solve that has ended ran between 1 and MAX_ITER bodies,
\* and every step taken inside the loop either runs one more body or leaves
\* the loop for good.
C2_AtMostMaxIter ==
    /\ [](iters <= MAX_ITER)
    /\ [](pc = "E_done" => (iters >= 1 /\ iters <= MAX_ITER))
    /\ [][pc = "E_loop" =>
             \/ iters' = iters + 1 /\ pc' \in {"E_loop", "E_done"}
             \/ iters' = iters /\ iters = MAX_ITER /\ pc' = "E_done"]_vars

\* C2 witness: a solve that ran all MAX_ITER bodies without converging.
C2_Witness ==
    pc = "E_done" /\ how = "exhausted" /\ iters = MAX_ITER /\ orbit.e > 0

\* C3 as stated: when all MAX_ITER bodies ran without the convergence test
\* passing, the value returned is the last candidate E_next.
C3_ReturnsLastCandidate ==
    (pc = "E_done" /\ how = "exhausted") => retE = E_next

\* C3 as amended: when all MAX_ITER bodies ran without the convergence test
\* passing, the value returned is the estimate E left by the last damped
\* update, that is E_old + ((step * (E_next - E_old)) mod 1.4) for the last
\* body's E_old and E_next.
C3_ReturnsLastEstimate ==
    (pc = "E_done" /\ how = "exhausted") =>
        /\ iters = MAX_ITER
        /\ retE = E
        /\ retE = Add(E_old, Fmod(Mul(step_mult(orbit, E_old), Sub(E_next, E_old)), DAMP))

\* C3 witness: an exhausted solve whose result differs from the last candidate.
C3_Witness ==
    pc = "E_done" /\ how = "exhausted" /\ retE # E_next

KeplerTol == 10               \* the round-trip tolerance, in units of 1/ONE

\* C7: for every e up to 0.99 and every M the value returned satisfies
\* Kepler's equation: E - e*sin(E) equals M mod 2*pi within the tolerance.
C7_KeplerRoundTrip ==
    pc = "E_done" =>
        Abs(retE - Mul(orbit.e, Sin(retE)) - Fmod(M, TWO_PI)) <= KeplerTol

\* the product step * (E_next - E_old) of the last loop body
C10_Product == Mul(Div(ONE, Sub(ONE, Mul(orbit.e, Cos(E_old)))), Sub(E_next, E_old))

\* the product reduced modulo 1.4 as a whole, keeping the product's sign
C10_Increment ==
    C10_Product - DAMP * (IF C10_Product >= 0 THEN C10_Product \div DAMP
                          ELSE -((-C10_Product) \div DAMP))

\* C10 as stated: every update that follows a failed convergence test sets E
\* to E_old plus the product step * (E_next - E_old) reduced modulo 1.4 as a
\* whole with the product's sign, and so changes E by strictly less than 1.4.
C10_ChangeBelowDamp ==
    (iters > 0 /\ how # "converged") =>
        /\ E = Add(E_old, C10_Increment)
        /\ Sign(C10_Increment) * Sign(C10_Product) >= 0
        /\ Abs(E - E_old) < DAMP

\* C10 as amended: the increment is the whole product reduced modulo 1.4
\* with the product's sign, strictly below 1.4 in magnitude; E becomes the
\* floating-point sum of E_old and the increment, so the change of E is the
\* increment up to the rounding of that sum (half the spacing at the sum)
\* and can reach 1.4.
C10_DampedUpdate ==
    (iters > 0 /\ how # "converged") =>
        /\ Abs(C10_Increment) < DAMP
        /\ Sign(C10_Increment) * Sign(C10_Product) >= 0
        /\ E = Add(E_old, C10_Increment)
        /\ 2 * Abs((E - E_old) - C10_Increment) <= Spacing(Abs(E_old + C10_Increment))
        /\ Sign(E - E_old) * Sign(C10_Product) >= 0

\* C10 witness: an update whose product is negative and beyond the clamp.
C10_Witness ==
    /\ pc = "E_loop" /\ iters > 0
    /\ Mul(step_mult(orbit, E_old), Sub(E_next, E_old)) < -DAMP
    /\ E < E_old

---------------------------------------------------------------------------
(* Claims about Orbit::pos, the apsis queries and the fields.              *)

\* C4: pos(M) is the in-plane point (a*(cos E - e), b*sin E, 0) of the solved
\* E, rotated by rot_z with w, then by rot_x with i, then by rot_z with o,
\* and by nothing else.
C4_PosRotationOrder ==
    pc = "pos_done" =>
        LET plane == <<Mul(orbit.a, Sub(Cos(retE), orbit.e)), Mul(orbit.b, Sin(retE)), 0>>
        IN pos = rot_z(rot_x(rot_z(plane, orbit.w), orbit.i), orbit.o)

\* C4 witness: a position computed with three different non-commuting
\* rotations, ending out of the reference plane.
C4_Witness ==
    /\ pc = "pos_done"
    /\ orbit.i # 0 /\ orbit.o # 0 /\ orbit.w # 0 /\ orbit.w # orbit.o
    /\ pos[3] # 0

\* distance from the focus of the in-plane point of the eccentric anomaly est
Radius(orb, est) == Hypot(pos_elliptic(orb, est)[1], pos_elliptic(orb, est)[2])

\* the eccentric anomalies the distances are sampled at: every 0.1 radian
Anomalies == { (k * ONE) \div 10 : k \in 0 .. 63 }

Nearest(orb) ==
    CHOOSE d \in { Radius(orb, t) : t \in Anomalies } :
        \A t \in Anomalies : d <= Radius(orb, t)

Farthest(orb) ==
    CHOOSE d \in { Radius(orb, t) : t \in Anomalies } :
        \A t \in Anomalies : d >= Radius(orb, t)

DistTol == 10                 \* tolerance on a distance, in units of 1/ONE

\* C6: periapsis() is the nearest and apoapsis() the farthest distance of the
\* orbit, with periapsis = (a - a*e)/2 and apoapsis = a - periapsis, and
\* apoapsis() >= periapsis().
C6_ApsidesAreExtremes ==
    /\ pc = "periapsis_done" =>
          /\ ret = Div(Sub(orbit.a, Mul(orbit.a, orbit.e)), 2 * ONE)
          /\ Abs(ret - Nearest(orbit)) <= DistTol
    /\ pc = "apoapsis_done" =>
          /\ ret = Sub(orbit.a, Div(Sub(orbit.a, Mul(orbit.a, orbit.e)), 2 * ONE))
          /\ ret >= periapsis(orbit)
          /\ Abs(ret - Farthest(orbit)) <= DistTol

\* C5: in every state b equals a*sqrt(1 - e^2) for the current e and a,
\* whatever the caller does with the Orbit (checked under SpecPub).
C5_SemiminorDerived ==
    orbit.b = Mul(orbit.a, Sqrt(Sub(ONE, Mul(orbit.e, orbit.e))))

---------------------------------------------------------------------------
(* Claims about the rotations, under SpecRot.                              *)

RotTol == 2                   \* rounding allowed per unit of radius, in units of 1/ONE

\* u and v agree up to the rounding of a rotation at radius r
Near(u, v, r) == Abs(u - v) * ONE <= RotTol * (r + ONE)

\* C8: rot_z(rot_z(p, t1), t2) equals rot_z(p, t1 + t2) up to rounding, with
\* the same z and the same distance from the z axis.
C8_RotZComposes ==
    (Len(hist) = 2 /\ hist[1][1] = "z" /\ hist[2][1] = "z") =>
        LET once == rot_z(p, Add(hist[1][2], hist[2][2]))
            r    == Hypot(p[1], p[2])
        IN /\ Near(q[1], once[1], r)
           /\ Near(q[2], once[2], r)
           /\ q[3] = once[3]
           /\ q[3] = p[3]
           /\ Near(Hypot(q[1], q[2]), Hypot(once[1], once[2]), r)
           /\ Near(Hypot(q[1], q[2]), r, r)

\* C8 witness: two rot_z calls by non-zero angles on a point off the z axis.
C8_Witness ==
    /\ Len(hist) = 2 /\ hist[1][1] = "z" /\ hist[2][1] = "z"
    /\ hist[1][2] > 0 /\ hist[2][2] > 0
    /\ p[1] # 0 /\ p[2] # 0 /\ p[3] # 0
    /\ q # p

AxisOf(call) == IF call[1] = "x" THEN 1 ELSE IF call[1] = "y" THEN 2 ELSE 3

\* C9 as stated: a rotation by 0 about any axis returns p itself, and every
\* rotation returns the coordinate on its axis unchanged.
C9_ZeroRotationReturnsP ==
    Len(hist) = 1 =>
        /\ q[AxisOf(hist[1])] = p[AxisOf(hist[1])]
        /\ hist[1][2] = 0 => q = p

\* C9 as amended: a rotation by 0 about any axis returns p up to the rounding
\* of the polar round trip (not always p itself), and every rotation returns
\* the coordinate on its axis exactly unchanged.
C9_ZeroRotationNearP ==
    Len(hist) = 1 =>
        /\ q[AxisOf(hist[1])] = p[AxisOf(hist[1])]
        /\ hist[1][2] = 0 =>
              \A k \in 1 .. 3 : Near(q[k], p[k], Hypot(Hypot(p[1], p[2]), p[3]))

\* C9 witness: a rotation by 0 that did not return the point it was given.
C9_Witness ==
    /\ Len(hist) = 1 /\ hist[1][2] = 0
    /\ q # p

===========================================================================
